---- MODULE Spec2Model ----
(***************************************************************************)
(* derpkg: a unified front-end that dispatches search / install / update / *)
(* remove / list to the package managers found on the host.                *)
(*                                                                         *)
(* One behaviour of this module is one run of the tool: either main() is   *)
(* run with command-line arguments (entry = "main"), or a PackageManager   *)
(* is constructed and one of its methods is called directly                *)
(* (entry = "api").  The host (which binaries exist), the request and the  *)
(* environment's answers (prompt responses, subprocess exit codes,         *)
(* interrupts) are chosen nondeterministically.                            *)
(*                                                                         *)
(* Text is modelled as a sequence of one-character strings, so that        *)
(* str.lower() and str.strip() are computed character by character.        *)
(***************************************************************************)
EXTENDS Integers, Sequences, FiniteSets, TLC

\* ------------------------------------------------------------------ text

UpperLetters ==
    << "A", "B", "C", "D", "E", "F", "G", "H", "I", "J", "K", "L", "M",
       "N", "O", "P", "Q", "R", "S", "T", "U", "V", "W", "X", "Y", "Z" >>

LowerLetters ==
    << "a", "b", "c", "d", "e", "f", "g", "h", "i", "j", "k", "l", "m",
       "n", "o", "p", "q", "r", "s", "t", "u", "v", "w", "x", "y", "z" >>

\* str.lower() on one character
LowerChar(c) ==
    IF \E i \in 1..26 : UpperLetters[i] = c
    THEN LowerLetters[CHOOSE i \in 1..26 : UpperLetters[i] = c]
    ELSE c

\* str.lower()
Lower(s) == [i \in 1..Len(s) |-> LowerChar(s[i])]

Whitespace == {" ", "\t", "\n"}

RECURSIVE LStrip(_)
LStrip(s) ==
    IF s # <<>> /\ Head(s) \in Whitespace THEN LStrip(Tail(s)) ELSE s

RECURSIVE RStrip(_)
RStrip(s) ==
    IF s # <<>> /\ s[Len(s)] \in Whitespace
    THEN RStrip(SubSeq(s, 1, Len(s) - 1))
    ELSE s

\* str.strip()
Strip(s) == RStrip(LStrip(s))

\* Python's None, and the two exceptions input() can raise.  Each is a
\* one-element sequence whose element is no character, so it differs from
\* every text, the empty text included.
None == << "None" >>
EOFError == << "EOFError" >>
KeyboardInterrupt == << "KeyboardInterrupt" >>

\* Python truthiness of an optional string: `not x`
Falsy(x) == x = None \/ x = <<>>

\* ------------------------------------------------------- the registry

pacman == << "p", "a", "c", "m", "a", "n" >>
apt == << "a", "p", "t" >>
zypper == << "z", "y", "p", "p", "e", "r" >>
flatpak == << "f", "l", "a", "t", "p", "a", "k" >>
yay == << "y", "a", "y" >>

\* self.package_managers, in insertion order
Registry == << pacman, apt, zypper, flatpak, yay >>

BackendNames == { Registry[i] : i \in DOMAIN Registry }

\* the command table of each backend (argv words are plain strings; a
\* backend without a cleanup command has an empty one)
PacmanCommands ==
    [ search |-> << "pacman", "-Ss" >>, install |-> << "pacman", "-S" >>,
      update |-> << "pacman", "-Syu" >>, remove |-> << "pacman", "-Rs" >>,
      cleanup |-> <<>> ]

AptCommands ==
    [ search |-> << "apt", "search" >>, install |-> << "apt", "install" >>,
      update |-> << "bash", "-c", "apt update && apt upgrade" >>,
      remove |-> << "apt", "autoremove", "--purge" >>,
      cleanup |-> <<>> ]

ZypperCommands ==
    [ search |-> << "zypper", "search", "-s" >>,
      install |-> << "zypper", "install" >>,
      update |-> << "zypper", "dup" >>,
      remove |-> << "zypper", "remove", "--clean-deps" >>,
      cleanup |-> <<>> ]

FlatpakCommands ==
    [ search |-> << "flatpak", "search" >>,
      install |-> << "flatpak", "install", "flathub" >>,
      update |-> << "flatpak", "update" >>,
      remove |-> << "flatpak", "uninstall" >>,
      cleanup |-> << "flatpak", "uninstall", "--unused" >> ]

YayCommands ==
    [ search |-> << "yay", "-Ss" >>, install |-> << "yay", "-S" >>,
      update |-> << "yay", "-Syu" >>, remove |-> << "yay", "-Rs" >>,
      cleanup |-> <<>> ]

\* self.package_managers[m].commands
Commands(m) ==
    IF m = pacman THEN PacmanCommands
    ELSE IF m = apt THEN AptCommands
    ELSE IF m = zypper THEN ZypperCommands
    ELSE IF m = flatpak THEN FlatpakCommands
    ELSE YayCommands

\* ------------------------------------------------------------ the inputs

\* longest package list of a request
MaxPkgs == 2

vim == << "v", "i", "m" >>

\* a package name, an empty one and an all-whitespace one
PkgNames == { vim, <<>>, << " " >> }

PackageLists == UNION { [1..n -> PkgNames] : n \in 0..MaxPkgs }

\* -so values: absent, empty, backend names in several cases, an unknown one
RawSources ==
    { None, <<>>,
      pacman, << "P", "A", "C", "M", "A", "N" >>,
      apt, << "A", "p", "t" >>,
      flatpak, << "F", "l", "a", "t", "p", "a", "k" >>,
      yay,
      << "x", "y", "z" >> }

\* what input() returns or raises at a prompt
Responses ==
    { << "y" >>, << " ", "Y", "E", "S", " " >>, << "n" >>,
      EOFError, KeyboardInterrupt }

\* exit codes a subprocess ends with
ExitCodes == {0, 1}

\* how a blocking subprocess call ends: with an exit code, or with Ctrl-C
\* (KeyboardInterrupt raised in the waiting parent)
Outcomes ==
    [ interrupted : {FALSE}, rc : ExitCodes ]
        \cup { [ interrupted |-> TRUE, rc |-> 0 ] }

\* how a search subprocess ends: as above, and when it exits 0 its stdout is
\* blank ("empty"), holds result lines ("text"), or holds text at which the
\* backend's format_search_results raises an exception ("unparsable")
SearchOutcomes ==
    [ interrupted : {FALSE}, rc : {0}, out : {"empty", "text", "unparsable"} ]
        \cup [ interrupted : {FALSE}, rc : ExitCodes \ {0}, out : {"empty"} ]
        \cup { [ interrupted |-> TRUE, rc |-> 0, out |-> "empty" ] }

\* what is_running_as_sudo looks at: whether SUDO_USER is in the environment
\* and the effective user id (0: root, 1000: a user)
Privileges == [ SUDO_USER : BOOLEAN, euid : {0, 1000} ]

ActionNames == {"search", "install", "update", "remove", "list"}

\* exit_code while main() has not returned; <<c>> once it returned c
NoExit == <<>>

\* ------------------------------------------------------------- the state

VARIABLES
    host,                \* the backends whose binary exists on the host
    sudo,                \* the privileges: SUDO_USER in os.environ, os.geteuid()
    entry,               \* "main": the CLI; "api": a direct method call
    action,              \* the requested operation
    packages,            \* the package list of the request
    source,              \* args.source / the source argument
    available_managers,  \* keys of self.available_managers, in dict order
    pc,                  \* position of the run
    src,                 \* the local `source` after normalization
    use_flatpak,         \* use_flatpak / include_flatpak
    use_yay,             \* use_yay / include_yay
    plan,                \* the backends still to be invoked, in order
    log,                 \* prompts, subprocesses and messages, in order
    exit_code,           \* what main() returned
    listing,             \* what the backend has to report on a search
    output,              \* the stdout of the search subprocess
    lines,               \* the lines format_search_results has yet to read
    rows,                \* the rows format_search_results has printed
    installation,        \* what flatpak has installed
    flatpak_list,        \* the stdout of `flatpak list`
    installed_flatpaks,  \* the result of get_installed_flatpaks
    terminal_width,      \* what get_terminal_width returns
    headers,             \* print_table: its headers
    table_rows,          \* print_table: its rows
    col_widths,          \* print_table: the column widths
    header_line,         \* print_table: the header cells it printed
    pending,             \* print_table: the rows it has yet to print
    printed              \* print_table: the rows it printed, cell by cell

\* what a run never changes
request == << host, sudo, entry, action, packages >>

\* the state of format_search_results
parser ==
    << listing, output, lines, rows, installation, flatpak_list,
       installed_flatpaks >>

\* the state of print_table
table ==
    << terminal_width, headers, table_rows, col_widths, header_line,
       pending, printed >>

\* the part of it that only flatpak's search uses
flatpaks == << installation, flatpak_list, installed_flatpaks >>

\* the state of the dispatcher, apart from pc
dispatcher ==
    << source, available_managers, src, use_flatpak, use_yay, plan, log,
       exit_code >>

vars ==
    << host, sudo, entry, action, packages, source, available_managers, pc,
       src, use_flatpak, use_yay, plan, log, exit_code, listing, output,
       lines, rows, installation, flatpak_list, installed_flatpaks,
       terminal_width, headers, table_rows, col_widths, header_line,
       pending, printed >>

\* ------------------------------------------------------------ the events

Ev(kind, mgr, op, cmd, pkgs, resp, rc, msg) ==
    [ kind |-> kind, mgr |-> mgr, op |-> op, cmd |-> cmd, pkgs |-> pkgs,
      resp |-> resp, rc |-> rc, msg |-> msg ]

\* Display.print_error / print_warning / print_success
Message(level, mgr, rc, msg) == Ev(level, mgr, "", <<>>, <<>>, None, rc, msg)

\* input(prompt) returned or raised `resp`
Prompted(type, mgr, resp) == Ev("prompt", mgr, type, <<>>, <<>>, resp, 0, "")

\* a subprocess was started with argv = cmd + pkgs
Spawned(mgr, op, cmd, pkgs) == Ev("spawn", mgr, op, cmd, pkgs, None, 0, "")

\* the subprocess ended with exit code rc
Exited(mgr, op, rc) == Ev("exit", mgr, op, <<>>, <<>>, None, rc, "")

\* format_search_results raised an exception on the stdout of the search
Raised(mgr) == Ev("raise", mgr, "search", <<>>, <<>>, None, 0, "")

\* Ctrl-C arrived while the subprocess was awaited
Interrupted(mgr, op) == Ev("interrupt", mgr, op, <<>>, <<>>, None, 0, "")

\* ------------------------------------------------- the dispatcher's data

InSeq(seq, x) == \E i \in DOMAIN seq : seq[i] = x

\* a detection that skips the probe
DetectPackageManagers_NoProbe(h) == Registry

\* _detect_package_managers: the backends whose is_available() held, in
\* registry order (h = the backends whose binary exists)
DetectPackageManagers(h) == SelectSeq(Registry, LAMBDA m : m \in h)

\* self.system_managers
SystemManagers(avail) == SelectSeq(avail, LAMBDA m : m \notin {flatpak, yay})

\* self.lowercase_managers, as the set of its (key, value) pairs
LowercaseManagers(avail) ==
    { << Lower(avail[i]), avail[i] >> : i \in DOMAIN avail }

\* a normalization that looks the name up as it is written
NormalizeSource_CaseSensitive(avail, s) == IF Falsy(s) THEN None ELSE s

\* _normalize_source
NormalizeSource(avail, s) ==
    IF Falsy(s) THEN None
    ELSE IF \E p \in LowercaseManagers(avail) : p[1] = Lower(s)
         THEN (CHOOSE p \in LowercaseManagers(avail) : p[1] = Lower(s))[2]
         ELSE s

\* a validation that forgets to strip the entries
ValidatePackages_NoStrip(pkgs) ==
    IF pkgs = <<>> THEN "No packages specified"
    ELSE IF \E i \in DOMAIN pkgs : pkgs[i] = <<>>
         THEN "Invalid package name"
         ELSE ""

\* _validate_packages: the message it prints, "" when the list is valid
ValidatePackages(pkgs) ==
    IF pkgs = <<>> THEN "No packages specified"
    ELSE IF \E i \in DOMAIN pkgs : Strip(pkgs[i]) = <<>>
         THEN "Invalid package name"
         ELSE ""

\* a preference that takes a prompt cut short for a yes
Accepts_CutShortIsYes(resp) ==
    \/ resp \in {EOFError, KeyboardInterrupt}
    \/ Strip(Lower(resp)) \in { << "y" >>, << "y", "e", "s" >> }

\* the last lines of _ask_manager_preference: is the answer a yes
Accepts(resp) ==
    /\ resp \notin {EOFError, KeyboardInterrupt}
    /\ Strip(Lower(resp)) \in { << "y" >>, << "y", "e", "s" >> }

\* a preference that always asks, even with no system backend
NeedsPrompt_Always(avail, mgr) == InSeq(avail, mgr)

\* _ask_manager_preference: does control reach input()
NeedsPrompt(avail, mgr) ==
    InSeq(avail, mgr) /\ SystemManagers(avail) # <<>>

\* a preference that prints nothing when its prompt is cut short
AskManagerPreference_Silent(avail, type, mgr, resp) ==
    IF ~InSeq(avail, mgr) THEN [ value |-> FALSE, events |-> <<>> ]
    ELSE IF ~NeedsPrompt(avail, mgr) THEN [ value |-> TRUE, events |-> <<>> ]
    ELSE [ value |-> Accepts(resp),
           events |-> << Prompted(type, mgr, resp) >> ]

\* _ask_manager_preference: the value returned and what it asked and
\* printed, `resp` being what input() gives if it is called
AskManagerPreference(avail, type, mgr, resp) ==
    IF ~InSeq(avail, mgr) THEN [ value |-> FALSE, events |-> <<>> ]
    ELSE IF ~NeedsPrompt(avail, mgr) THEN [ value |-> TRUE, events |-> <<>> ]
    ELSE [ value |-> Accepts(resp),
           events |->
               << Prompted(type, mgr, resp) >> \o
               IF resp \in {EOFError, KeyboardInterrupt}
               THEN << Message("warning", None, 0,
                               "Operation cancelled by user") >>
               ELSE <<>> ]

\* a search that is never elevated
SearchArgv_NoSudo(m) == Commands(m).search

\* the argv prefix of each kind of call
SearchArgv(m) ==
    IF m \notin {flatpak, yay}
    THEN << "sudo" >> \o Commands(m).search
    ELSE Commands(m).search

InstallArgv(m) ==
    IF m = flatpak THEN << "flatpak", "install", "flathub" >>
    ELSE IF m # yay THEN << "sudo" >> \o Commands(m).install
    ELSE Commands(m).install

UpdateArgv(m) ==
    IF m \in {flatpak, yay}
    THEN Commands(m).update
    ELSE << "sudo" >> \o Commands(m).update

RemoveArgv(m) ==
    IF m = flatpak THEN << "flatpak", "uninstall" >>
    ELSE IF m # yay THEN << "sudo" >> \o Commands(m).remove
    ELSE Commands(m).remove

\* a search that forgets the explicit source
SearchPlan_IgnoresSource(avail, s, uf, uy) ==
    SystemManagers(avail)
    \o (IF uy /\ InSeq(avail, yay) THEN << yay >> ELSE <<>>)
    \o (IF uf /\ InSeq(avail, flatpak) THEN << flatpak >> ELSE <<>>)

\* a search that queries flatpak whether or not it was chosen
SearchPlan_FlatpakUnasked(avail, s, uf, uy) ==
    IF ~Falsy(s) /\ InSeq(avail, s) THEN << s >>
    ELSE SystemManagers(avail)
         \o (IF uy /\ InSeq(avail, yay) THEN << yay >> ELSE <<>>)
         \o (IF InSeq(avail, flatpak) THEN << flatpak >> ELSE <<>>)

\* search: the backends queried, in order
SearchPlan(avail, s, uf, uy) ==
    IF ~Falsy(s) /\ InSeq(avail, s) THEN << s >>
    ELSE SystemManagers(avail)
         \o (IF uy /\ InSeq(avail, yay) THEN << yay >> ELSE <<>>)
         \o (IF uf /\ InSeq(avail, flatpak) THEN << flatpak >> ELSE <<>>)

\* an install that prefers yay to flatpak
InstallTarget_YayFirst(avail, uf, uy) ==
    IF uy THEN << yay >>
    ELSE IF uf THEN << flatpak >>
    ELSE IF SystemManagers(avail) # <<>> THEN << Head(SystemManagers(avail)) >>
    ELSE <<>>

\* install without a source: the backend used (none: the empty sequence)
InstallTarget(avail, uf, uy) ==
    IF uf THEN << flatpak >>
    ELSE IF uy THEN << yay >>
    ELSE IF SystemManagers(avail) # <<>> THEN << Head(SystemManagers(avail)) >>
    ELSE <<>>

\* remove without a source: the backend used (none: the empty sequence)
RemoveTarget(avail, uf, uy) ==
    IF uf THEN << flatpak >>
    ELSE IF uy THEN << yay >>
    ELSE IF SystemManagers(avail) # <<>> THEN << Head(SystemManagers(avail)) >>
    ELSE <<>>

\* an update that stops after the first system backend
UpdatePlan_FirstSystemOnly(avail, uf, uy) ==
    (IF SystemManagers(avail) # <<>>
     THEN << Head(SystemManagers(avail)) >> ELSE <<>>)
    \o (IF uy /\ InSeq(avail, yay) THEN << yay >> ELSE <<>>)
    \o (IF uf /\ InSeq(avail, flatpak) THEN << flatpak >> ELSE <<>>)

\* an update that runs flatpak's update before yay's
UpdatePlan_FlatpakFirst(avail, uf, uy) ==
    SystemManagers(avail)
    \o (IF uf /\ InSeq(avail, flatpak) THEN << flatpak >> ELSE <<>>)
    \o (IF uy /\ InSeq(avail, yay) THEN << yay >> ELSE <<>>)

\* update: the backends updated, in order
UpdatePlan(avail, uf, uy) ==
    SystemManagers(avail)
    \o (IF uy /\ InSeq(avail, yay) THEN << yay >> ELSE <<>>)
    \o (IF uf /\ InSeq(avail, flatpak) THEN << flatpak >> ELSE <<>>)

\* what is left of the search after one _search_in_manager ended with rc
SearchRemaining(p, rc) == Tail(p)

\* an update loop that gives up at the first failure
UpdateRemaining_StopOnFailure(p, rc) == IF rc = 0 THEN Tail(p) ELSE <<>>

\* what is left of the update after one backend's update ended with rc
UpdateRemaining(p, rc) == Tail(p)

\* a removal that cleans up whatever the exit code of the uninstall
NeedsCleanup_Always(m, rc) == m = flatpak

\* remove: is the removal by m, ended with rc, followed by flatpak's cleanup
NeedsCleanup(m, rc) == m = flatpak /\ rc = 0

\* a blocking subprocess call and how it ended
CallEvents(mgr, op, cmd, pkgs, o) ==
    << Spawned(mgr, op, cmd, pkgs) >> \o
    IF o.interrupted
    THEN << Interrupted(mgr, op) >>
    ELSE << Exited(mgr, op, o.rc) >>

\* the message after a subprocess.call of install / update / remove / cleanup
Report(mgr, rc, what) ==
    IF rc = 0
    THEN Message("success", mgr, rc, what \o " completed")
    ELSE Message("error", mgr, rc, what \o " failed")

\* _search_in_manager: the call of the backend's format_search_results,
\* which is reached with a non-blank stdout and may raise
ParseEvents(mgr, o) ==
    IF o.rc = 0 /\ o.out = "unparsable" THEN << Raised(mgr) >> ELSE << >>

\* what _search_in_manager prints once the search subprocess has exited
SearchReport(mgr, o) ==
    IF o.rc # 0 THEN Message("error", mgr, o.rc, "Search failed")
    ELSE IF o.out = "empty"
         THEN Message("warning", mgr, 0, "No packages found")
    ELSE IF o.out = "unparsable"
         THEN Message("error", mgr, 0, "Unexpected error during search")
         ELSE Message("success", mgr, 0, "Search completed")

\* a privilege test that looks at the environment only
IsRunningAsSudo_EnvOnly(p) == p.SUDO_USER

\* is_running_as_sudo
IsRunningAsSudo(p) == p.SUDO_USER \/ p.euid = 0

\* --------------------------------------------------------------- the run

Init ==
    /\ host \in SUBSET BackendNames
    /\ entry \in {"main", "api"}
    /\ sudo \in (IF entry = "main" THEN Privileges
                 ELSE { [ SUDO_USER |-> FALSE, euid |-> 1000 ] })
    /\ action \in ActionNames
    /\ packages \in (IF action \in {"update", "list"}
                     THEN { <<>> } ELSE PackageLists)
    /\ source \in (IF entry = "api" /\ action \in {"update", "list"}
                   THEN { None } ELSE RawSources)
    /\ available_managers = <<>>
    /\ pc = "start"
    /\ src = None
    /\ use_flatpak = FALSE
    /\ use_yay = FALSE
    /\ plan = <<>>
    /\ log = <<>>
    /\ exit_code = NoExit
    /\ listing = <<>>
    /\ output = <<>>
    /\ lines = <<>>
    /\ rows = <<>>
    /\ installation = <<>>
    /\ flatpak_list = <<>>
    /\ installed_flatpaks = <<>>
    /\ terminal_width = 80
    /\ headers = << >>
    /\ table_rows = << >>
    /\ col_widths = << >>
    /\ header_line = << >>
    /\ pending = << >>
    /\ printed = << >>

\* a main that returns 1 when a subprocess of the run failed
Finish_PropagatesFailure(l) ==
    /\ log' = l
    /\ pc' = IF entry = "main" THEN "exited" ELSE "returned"
    /\ exit_code' =
         IF entry # "main" THEN NoExit
         ELSE IF \E i \in DOMAIN l : l[i].kind = "exit" /\ l[i].rc # 0
              THEN << 1 >> ELSE << 0 >>

\* the method returns; under main, main prints a blank line and returns 0
Finish(l) ==
    /\ log' = l
    /\ pc' = IF entry = "main" THEN "exited" ELSE "returned"
    /\ exit_code' = IF entry = "main" THEN << 0 >> ELSE NoExit

\* an interrupt that ends the run like a normal return
Abort_Returns0(l) == Finish(l)

\* KeyboardInterrupt leaves the method; main catches it and returns 130
Abort(l) ==
    /\ log' = IF entry = "main"
              THEN Append(l, Message("warning", None, 0,
                                     "Operation cancelled by user"))
              ELSE l
    /\ pc' = IF entry = "main" THEN "exited" ELSE "raised"
    /\ exit_code' = IF entry = "main" THEN << 130 >> ELSE NoExit

\* main returns 1 after printing an error
Fail(l) ==
    /\ log' = l
    /\ pc' = "exited"
    /\ exit_code' = << 1 >>

\* main: refuse to run with elevated privileges
MainSudo ==
    /\ pc = "start" /\ entry = "main" /\ IsRunningAsSudo(sudo)
    /\ Fail(log \o
            << Message("error", None, 0,
                       "This program should not be run with sudo privileges."),
               Message("error", None, 0,
                       "Sudo will be called automatically when needed.") >>)
    /\ UNCHANGED << request, parser, table, source, available_managers, src, use_flatpak,
                    use_yay, plan >>

\* PackageManager(): detection, once
Construct ==
    /\ pc = "start" /\ ~(entry = "main" /\ IsRunningAsSudo(sudo))
    /\ available_managers' = DetectPackageManagers(host)
    /\ pc' = IF entry = "main" THEN "main" ELSE action
    /\ UNCHANGED << request, parser, table, source, src, use_flatpak, use_yay, plan, log,
                    exit_code >>

\* main: validate -so, check that packages were given, call the method
MainDispatch ==
    /\ pc = "main"
    /\ LET n == NormalizeSource(available_managers, source) IN
       IF ~Falsy(source) /\ ~InSeq(available_managers, n)
       THEN /\ Fail(Append(log, Message("error", None, 0,
                                  "Package manager not found or not available")))
            /\ UNCHANGED source
       ELSE /\ source' = IF ~Falsy(source) THEN n ELSE source
            /\ IF action \in {"install", "remove", "search"} /\ packages = <<>>
               THEN Fail(Append(log, Message("error", None, 0,
                                             "No packages specified")))
               ELSE /\ pc' = action
                    /\ UNCHANGED << log, exit_code >>
    /\ UNCHANGED << request, parser, table, available_managers, src, use_flatpak, use_yay,
                    plan >>

\* ------------------------------------------------------------------ search

\* search: validation and normalization
Search ==
    /\ pc = "search"
    /\ IF ValidatePackages(packages) # ""
       THEN /\ Finish(Append(log, Message("error", None, 0,
                                          ValidatePackages(packages))))
            /\ UNCHANGED src
       ELSE /\ src' = NormalizeSource(available_managers, source)
            /\ pc' = "search_flatpak"
            /\ UNCHANGED << log, exit_code >>
    /\ UNCHANGED << request, parser, table, source, available_managers, use_flatpak, use_yay,
                    plan >>

\* search: use_flatpak = ...
SearchAskFlatpak ==
    /\ pc = "search_flatpak"
    /\ \E resp \in Responses :
         LET reached == src # flatpak /\ src = None
                        /\ InSeq(available_managers, flatpak)
             r == AskManagerPreference(available_managers, "search",
                                       flatpak, resp)
         IN /\ use_flatpak' = (src = flatpak \/ (reached /\ r.value))
            /\ log' = IF reached THEN log \o r.events ELSE log
    /\ pc' = "search_yay"
    /\ UNCHANGED << request, parser, table, source, available_managers, src, use_yay, plan,
                    exit_code >>

\* search: use_yay = ...
SearchAskYay ==
    /\ pc = "search_yay"
    /\ \E resp \in Responses :
         LET reached == src # yay /\ src = None
                        /\ InSeq(available_managers, yay)
             r == AskManagerPreference(available_managers, "search", yay, resp)
         IN /\ use_yay' = (src = yay \/ (reached /\ r.value))
            /\ log' = IF reached THEN log \o r.events ELSE log
    /\ pc' = "search_list"
    /\ UNCHANGED << request, parser, table, source, available_managers, src, use_flatpak,
                    plan, exit_code >>

\* search: get_installed_flatpaks() if flatpak is searched, then the choice
\* of the backends to query
SearchListInstalled ==
    /\ pc = "search_list"
    /\ \E o \in Outcomes :
         LET listed == use_flatpak /\ InSeq(available_managers, flatpak)
             l == IF listed
                  THEN log \o CallEvents(flatpak, "list",
                                         << "flatpak", "list" >>, <<>>, o)
                  ELSE log
             p == SearchPlan(available_managers, src, use_flatpak, use_yay)
         IN IF listed /\ o.interrupted
            THEN Abort(l) /\ UNCHANGED plan
            ELSE /\ plan' = p
                 /\ IF p = <<>>
                    THEN Finish(l)
                    ELSE log' = l /\ pc' = "search_run"
                         /\ UNCHANGED exit_code
    /\ UNCHANGED << request, parser, table, source, available_managers, src, use_flatpak,
                    use_yay >>

\* _search_in_manager on the next backend of the search
SearchInManager ==
    /\ pc = "search_run" /\ plan # <<>>
    /\ \E o \in SearchOutcomes :
         LET m == Head(plan)
             l == log \o CallEvents(m, "search", SearchArgv(m), packages, o)
         IN IF o.interrupted
            THEN Abort(l) /\ UNCHANGED plan
            ELSE LET l2 == Append(l \o ParseEvents(m, o), SearchReport(m, o))
                     p == SearchRemaining(plan, o.rc)
                 IN /\ plan' = p
                    /\ IF p = <<>>
                       THEN Finish(l2)
                       ELSE log' = l2 /\ UNCHANGED << pc, exit_code >>
    /\ UNCHANGED << request, parser, table, source, available_managers, src, use_flatpak,
                    use_yay >>

\* ----------------------------------------------------------------- install

\* install: validation, normalization, the explicit source
Install ==
    /\ pc = "install"
    /\ LET n == NormalizeSource(available_managers, source) IN
       IF ValidatePackages(packages) # ""
       THEN /\ Finish(Append(log, Message("error", None, 0,
                                          ValidatePackages(packages))))
            /\ UNCHANGED << src, plan >>
       ELSE /\ src' = n
            /\ IF ~Falsy(n)
               THEN IF ~InSeq(available_managers, n)
                    THEN /\ Finish(Append(log, Message("error", None, 0,
                                "Package manager not found or not available")))
                         /\ UNCHANGED plan
                    ELSE /\ plan' = << n >>
                         /\ pc' = "install_run"
                         /\ UNCHANGED << log, exit_code >>
               ELSE /\ pc' = "install_flatpak"
                    /\ UNCHANGED << plan, log, exit_code >>
    /\ UNCHANGED << request, parser, table, source, available_managers, use_flatpak,
                    use_yay >>

\* install: use_flatpak = ...
InstallAskFlatpak ==
    /\ pc = "install_flatpak"
    /\ \E resp \in Responses :
         LET reached == InSeq(available_managers, flatpak)
             r == AskManagerPreference(available_managers, "install",
                                       flatpak, resp)
         IN /\ use_flatpak' = (reached /\ r.value)
            /\ log' = IF reached THEN log \o r.events ELSE log
    /\ pc' = "install_yay"
    /\ UNCHANGED << request, parser, table, source, available_managers, src, use_yay, plan,
                    exit_code >>

\* install: use_yay = ..., then the choice of the backend
InstallAskYay ==
    /\ pc = "install_yay"
    /\ \E resp \in Responses :
         LET reached == InSeq(available_managers, yay)
             r == AskManagerPreference(available_managers, "install", yay,
                                       resp)
             uy == reached /\ r.value
             l == IF reached THEN log \o r.events ELSE log
             p == InstallTarget(available_managers, use_flatpak, uy)
         IN /\ use_yay' = uy
            /\ plan' = p
            /\ IF p = <<>>
               THEN Finish(Append(l, Message("warning", None, 0,
                                   "No native package managers available")))
               ELSE log' = l /\ pc' = "install_run" /\ UNCHANGED exit_code
    /\ UNCHANGED << request, parser, table, source, available_managers, src, use_flatpak >>

\* install: the one subprocess.call
InstallRun ==
    /\ pc = "install_run" /\ plan # <<>>
    /\ \E o \in Outcomes :
         LET m == Head(plan)
             l == log \o CallEvents(m, "install", InstallArgv(m), packages, o)
         IN IF o.interrupted
            THEN Abort(l)
            ELSE Finish(Append(l, Report(m, o.rc, "Package installation")))
    /\ plan' = <<>>
    /\ UNCHANGED << request, parser, table, source, available_managers, src, use_flatpak,
                    use_yay >>

\* ------------------------------------------------------------------ update

\* update: include_flatpak = ...
UpdateAskFlatpak ==
    /\ pc = "update"
    /\ \E resp \in Responses :
         LET reached == InSeq(available_managers, flatpak)
             r == AskManagerPreference(available_managers, "update",
                                       flatpak, resp)
         IN /\ use_flatpak' = (reached /\ r.value)
            /\ log' = IF reached THEN log \o r.events ELSE log
    /\ pc' = "update_yay"
    /\ UNCHANGED << request, parser, table, source, available_managers, src, use_yay, plan,
                    exit_code >>

\* update: include_yay = ..., then the backends to update
UpdateAskYay ==
    /\ pc = "update_yay"
    /\ \E resp \in Responses :
         LET reached == InSeq(available_managers, yay)
             r == AskManagerPreference(available_managers, "update", yay,
                                       resp)
             uy == reached /\ r.value
             l == IF reached THEN log \o r.events ELSE log
             p == UpdatePlan(available_managers, use_flatpak, uy)
         IN /\ use_yay' = uy
            /\ plan' = p
            /\ IF p = <<>>
               THEN Finish(l)
               ELSE log' = l /\ pc' = "update_run" /\ UNCHANGED exit_code
    /\ UNCHANGED << request, parser, table, source, available_managers, src, use_flatpak >>

\* update: the subprocess.call of the next backend
UpdateRun ==
    /\ pc = "update_run" /\ plan # <<>>
    /\ \E o \in Outcomes :
         LET m == Head(plan)
             l == log \o CallEvents(m, "update", UpdateArgv(m), <<>>, o)
         IN IF o.interrupted
            THEN Abort(l) /\ UNCHANGED plan
            ELSE LET l2 == Append(l, Report(m, o.rc, "update"))
                     p == UpdateRemaining(plan, o.rc)
                 IN /\ plan' = p
                    /\ IF p = <<>>
                       THEN Finish(l2)
                       ELSE log' = l2 /\ UNCHANGED << pc, exit_code >>
    /\ UNCHANGED << request, parser, table, source, available_managers, src, use_flatpak,
                    use_yay >>

\* ------------------------------------------------------------------ remove

\* remove: validation, normalization, the explicit source
Remove ==
    /\ pc = "remove"
    /\ LET n == NormalizeSource(available_managers, source) IN
       IF ValidatePackages(packages) # ""
       THEN /\ Finish(Append(log, Message("error", None, 0,
                                          ValidatePackages(packages))))
            /\ UNCHANGED << src, plan >>
       ELSE /\ src' = n
            /\ IF ~Falsy(n)
               THEN IF ~InSeq(available_managers, n)
                    THEN /\ Finish(Append(log, Message("error", None, 0,
                                "Package manager not found or not available")))
                         /\ UNCHANGED plan
                    ELSE /\ plan' = << n >>
                         /\ pc' = "remove_run"
                         /\ UNCHANGED << log, exit_code >>
               ELSE /\ pc' = "remove_flatpak"
                    /\ UNCHANGED << plan, log, exit_code >>
    /\ UNCHANGED << request, parser, table, source, available_managers, use_flatpak,
                    use_yay >>

\* remove: use_flatpak = ...
RemoveAskFlatpak ==
    /\ pc = "remove_flatpak"
    /\ \E resp \in Responses :
         LET reached == InSeq(available_managers, flatpak)
             r == AskManagerPreference(available_managers, "remove",
                                       flatpak, resp)
         IN /\ use_flatpak' = (reached /\ r.value)
            /\ log' = IF reached THEN log \o r.events ELSE log
    /\ pc' = "remove_yay"
    /\ UNCHANGED << request, parser, table, source, available_managers, src, use_yay, plan,
                    exit_code >>

\* remove: use_yay = ..., then the choice of the backend
RemoveAskYay ==
    /\ pc = "remove_yay"
    /\ \E resp \in Responses :
         LET reached == InSeq(available_managers, yay)
             r == AskManagerPreference(available_managers, "remove", yay,
                                       resp)
             uy == reached /\ r.value
             l == IF reached THEN log \o r.events ELSE log
             p == RemoveTarget(available_managers, use_flatpak, uy)
         IN /\ use_yay' = uy
            /\ plan' = p
            /\ IF p = <<>>
               THEN Finish(Append(l, Message("warning", None, 0,
                                   "No native package managers available")))
               ELSE log' = l /\ pc' = "remove_run" /\ UNCHANGED exit_code
    /\ UNCHANGED << request, parser, table, source, available_managers, src, use_flatpak >>

\* remove: the subprocess.call of the removal
RemoveRun ==
    /\ pc = "remove_run" /\ plan # <<>>
    /\ \E o \in Outcomes :
         LET m == Head(plan)
             l == log \o CallEvents(m, "remove", RemoveArgv(m), packages, o)
             l2 == Append(l, Report(m, o.rc, "Package removal"))
         IN IF o.interrupted
            THEN Abort(l) /\ plan' = <<>>
            ELSE IF NeedsCleanup(m, o.rc)
                 THEN /\ log' = l2
                      /\ pc' = "remove_cleanup"
                      /\ UNCHANGED << plan, exit_code >>
                 ELSE Finish(l2) /\ plan' = <<>>
    /\ UNCHANGED << request, parser, table, source, available_managers, src, use_flatpak,
                    use_yay >>

\* remove: flatpak's cleanup after a successful removal
RemoveCleanup ==
    /\ pc = "remove_cleanup"
    /\ \E o \in Outcomes :
         LET l == log \o CallEvents(flatpak, "cleanup",
                                    Commands(flatpak).cleanup, <<>>, o)
         IN IF o.interrupted
            THEN Abort(l)
            ELSE Finish(Append(l, Report(flatpak, o.rc, "Cleanup")))
    /\ plan' = <<>>
    /\ UNCHANGED << request, parser, table, source, available_managers, src, use_flatpak,
                    use_yay >>

\* -------------------------------------------------------------------- list

\* list_available_managers: one line per detected backend
ListAvailableManagers ==
    /\ pc = "list"
    /\ Finish(
         IF available_managers = <<>>
         THEN Append(log, Message("warning", None, 0,
                                  "No package managers detected on this system"))
         ELSE log \o [ i \in DOMAIN available_managers |->
                         Message("success", available_managers[i], 0,
                                 "detected") ])
    /\ UNCHANGED << request, parser, table, source, available_managers, src, use_flatpak,
                    use_yay, plan >>

Next ==
    \/ MainSudo
    \/ Construct
    \/ MainDispatch
    \/ Search
    \/ SearchAskFlatpak
    \/ SearchAskYay
    \/ SearchListInstalled
    \/ SearchInManager
    \/ Install
    \/ InstallAskFlatpak
    \/ InstallAskYay
    \/ InstallRun
    \/ UpdateAskFlatpak
    \/ UpdateAskYay
    \/ UpdateRun
    \/ Remove
    \/ RemoveAskFlatpak
    \/ RemoveAskYay
    \/ RemoveRun
    \/ RemoveCleanup
    \/ ListAvailableManagers

Spec == Init /\ [][Next]_vars

\* ------------------------------------- pacman's format_search_results

\* str.split(c), c one character
RECURSIVE Split(_, _)
Split(s, c) ==
    IF \E i \in DOMAIN s : s[i] = c
    THEN LET k == CHOOSE i \in DOMAIN s :
                    s[i] = c /\ \A j \in 1 .. (i - 1) : s[j] # c
         IN << SubSeq(s, 1, k - 1) >> \o Split(SubSeq(s, k + 1, Len(s)), c)
    ELSE << s >>

\* str.startswith
StartsWith(s, prefix) ==
    Len(s) >= Len(prefix) /\ SubSeq(s, 1, Len(prefix)) = prefix

\* `sub in s`
Contains(s, sub) ==
    \E i \in 1 .. (Len(s) - Len(sub) + 1) :
        SubSeq(s, i, i + Len(sub) - 1) = sub

\* the marker the pacman parser looks for
InstalledMarker == << "[", "i", "n", "s", "t", "a", "l", "l", "e", "d", "]" >>

\* a printed row of search results
Row(name, version, origin, installed) ==
    [ name |-> name, version |-> version, origin |-> origin,
      installed |-> installed ]

\* PacmanManager.format_search_results, the body of its loop: the rows
\* printed for one line (none or one)
PacmanFormatLine(line) ==
    IF StartsWith(line, << " " >>) THEN << >>
    ELSE LET parts == Split(line, " ") IN
         IF Len(parts) >= 2
         THEN LET repo_pkg == parts[1]
                  version == parts[2]
                  is_installed == Contains(line, InstalledMarker)
                  halves == Split(repo_pkg, "/")
                  repo == IF Contains(repo_pkg, << "/" >>)
                          THEN halves[1] ELSE << >>
                  pkg == IF Contains(repo_pkg, << "/" >>)
                         THEN SubSeq(repo_pkg, Len(repo) + 2, Len(repo_pkg))
                         ELSE repo_pkg
              IN << Row(pkg, version, repo, is_installed) >>
         ELSE << >>

\* ---- what pacman reports: package lines and indented description lines

MaxLines == 3

extra == << "e", "x", "t", "r", "a" >>
core == << "c", "o", "r", "e" >>
firefox == << "f", "i", "r", "e", "f", "o", "x" >>

Package(repo, name, version, flags) ==
    [ kind |-> "package", repo |-> repo, name |-> name, version |-> version,
      flags |-> flags, text |-> << >> ]

Description(text) ==
    [ kind |-> "description", repo |-> << >>, name |-> << >>,
      version |-> << >>, flags |-> << >>, text |-> text ]

\* the entries of a listing: firefox installed and not, vim in a group and
\* installed, vim installed in another version, two descriptions
PacmanEntries ==
    { Package(extra, firefox, << "1", "2", "0", ".", "0", "-", "1" >>, << InstalledMarker >>),
      Package(extra, firefox, << "1", "2", "0", ".", "0", "-", "1" >>, << >>),
      Package(core, vim, << "9" >>, << << "(", "b", "a", "s", "e", ")" >>, InstalledMarker >>),
      Package(core, vim, << "9" >>, << << "[", "i", "n", "s", "t", "a", "l", "l", "e", "d", ":" >>, << "8", "]" >> >>),
      Description(<< "A", " ", "b", "r", "o", "w", "s", "e", "r" >>),
      Description(<< "e", "d", "i", "t", "o", "r" >>) }

\* a search that found something: one to MaxLines entries
PacmanListings == UNION { [1..n -> PacmanEntries] : n \in 1..MaxLines }

\* seqs joined with sep before each element
RECURSIVE JoinBefore(_, _)
JoinBefore(seqs, sep) ==
    IF seqs = << >> THEN << >>
    ELSE sep \o Head(seqs) \o JoinBefore(Tail(seqs), sep)

\* the line pacman -Ss prints for an entry: `repo/pkg version [flags]`, or
\* the description indented by four spaces
PacmanLine(e) ==
    IF e.kind = "description"
    THEN << " ", " ", " ", " " >> \o e.text
    ELSE e.repo \o << "/" >> \o e.name \o << " " >> \o e.version
         \o JoinBefore(e.flags, << " " >>)

\* the stdout of pacman -Ss: its lines, each ended by a newline
RECURSIVE PacmanOutput(_)
PacmanOutput(l) ==
    IF l = << >> THEN << >>
    ELSE PacmanLine(Head(l)) \o << "\n" >> \o PacmanOutput(Tail(l))

\* ---- the run of the parser

PacmanInit ==
    /\ listing \in PacmanListings
    /\ output = PacmanOutput(listing)
    /\ lines = << >>
    /\ rows = << >>
    /\ installation = << >>
    /\ flatpak_list = << >>
    /\ installed_flatpaks = << >>
    /\ terminal_width = 80
    /\ headers = << >>
    /\ table_rows = << >>
    /\ col_widths = << >>
    /\ header_line = << >>
    /\ pending = << >>
    /\ printed = << >>
    /\ pc = "format"
    /\ host = {pacman}
    /\ sudo = [ SUDO_USER |-> FALSE, euid |-> 1000 ]
    /\ entry = "api"
    /\ action = "search"
    /\ packages = << vim >>
    /\ source = None
    /\ available_managers = << pacman >>
    /\ src = None
    /\ use_flatpak = FALSE
    /\ use_yay = FALSE
    /\ plan = << >>
    /\ log = << >>
    /\ exit_code = NoExit

\* format_search_results: lines = output.strip().split('\n')
PacmanSplitLines ==
    /\ pc = "format"
    /\ lines' = Split(Strip(output), "\n")
    /\ pc' = "format_line"
    /\ UNCHANGED << request, dispatcher, table, flatpaks, listing, output, rows >>

\* format_search_results: one turn of its loop
PacmanReadLine ==
    /\ pc = "format_line" /\ lines # << >>
    /\ rows' = rows \o PacmanFormatLine(Head(lines))
    /\ lines' = Tail(lines)
    /\ pc' = IF Tail(lines) = << >> THEN "formatted" ELSE pc
    /\ UNCHANGED << request, dispatcher, table, flatpaks, listing, output >>

PacmanNext ==
    \/ PacmanSplitLines
    \/ PacmanReadLine

PacmanSpec == PacmanInit /\ [][PacmanNext]_vars

\* ---------------------------------------- apt's format_search_results

\* str.isalnum, one character
IsAlnum(c) ==
    \/ \E i \in 1..26 : UpperLetters[i] = c \/ LowerLetters[i] = c
    \/ c \in {"0", "1", "2", "3", "4", "5", "6", "7", "8", "9"}

\* s[:n]
Prefix(s, n) == SubSeq(s, 1, IF Len(s) < n THEN Len(s) ELSE n)

\* str.split(c, 1), c one character
SplitOnce(s, c) ==
    IF \E i \in DOMAIN s : s[i] = c
    THEN LET k == CHOOSE i \in DOMAIN s :
                    s[i] = c /\ \A j \in 1 .. (i - 1) : s[j] # c
         IN << SubSeq(s, 1, k - 1), SubSeq(s, k + 1, Len(s)) >>
    ELSE << s >>

\* the marker the apt parser looks for
AptInstalledMarker == << "[", "i", "n", "s", "t", "a", "l", "l", "e", "d" >>

\* AptManager.format_search_results, the body of its loop: the rows printed
\* for one line (none or one)
AptFormatLine(line) ==
    IF Strip(line) = << >> THEN << >>
    ELSE IF \/ StartsWith(line, << " " >>)
            \/ Contains(Prefix(line, 10), << ":" >>)
            \/ (~Contains(line, << "/" >>) /\ ~IsAlnum(line[1]))
    THEN << >>
    ELSE LET parts == SplitOnce(line, " ")
             pkg_repo == Strip(parts[1])
             halves == SplitOnce(pkg_repo, "/")
             pkg == halves[1]
             repo == IF Len(halves) > 1 THEN halves[2] ELSE << >>
             remaining == IF Len(parts) > 1 THEN Strip(parts[2]) ELSE << >>
             version == Split(remaining, " ")[1]
         IN << Row(pkg, version, repo,
                   Contains(remaining, AptInstalledMarker)) >>

\* ---- what apt reports: lines `pkg/repo version arch [flags]`

stable == << "s", "t", "a", "b", "l", "e" >>
sid == << "s", "i", "d" >>
amd64 == << "a", "m", "d", "6", "4" >>

\* the entries of a listing: the flags begin with the architecture; vim has
\* a version with an epoch, in a long-named and in a short-named repository
AptEntries ==
    { Package(stable, vim, << "2", ":", "8", ".", "2", ".", "0", "-", "1" >>, << amd64, << "[", "i", "n", "s", "t", "a", "l", "l", "e", "d", ",", "a", "u", "t", "o", "m", "a", "t", "i", "c", "]" >> >>),
      Package(stable, vim, << "2", ":", "8", ".", "2", ".", "0", "-", "1" >>, << amd64 >>),
      Package(sid, vim, << "2", ":", "8", ".", "2", ".", "0", "-", "1" >>, << amd64, << "[", "i", "n", "s", "t", "a", "l", "l", "e", "d", "]" >> >>),
      Package(stable, firefox, << "1", "2", "0", ".", "0", "-", "1" >>, << amd64 >>),
      Package(sid, firefox, << "1", "2", "0", ".", "0", "-", "1" >>, << amd64, << "[", "i", "n", "s", "t", "a", "l", "l", "e", "d", "]" >> >>) }

AptListings == UNION { [1..n -> AptEntries] : n \in 1..MaxLines }

\* the line apt search prints for an entry
AptLine(e) ==
    e.name \o << "/" >> \o e.repo \o << " " >> \o e.version
    \o JoinBefore(e.flags, << " " >>)

\* the stdout of apt search: its lines, each ended by a newline
RECURSIVE AptOutput(_)
AptOutput(l) ==
    IF l = << >> THEN << >>
    ELSE AptLine(Head(l)) \o << "\n" >> \o AptOutput(Tail(l))

\* ---- the run of the parser

AptInit ==
    /\ listing \in AptListings
    /\ output = AptOutput(listing)
    /\ lines = << >>
    /\ rows = << >>
    /\ installation = << >>
    /\ flatpak_list = << >>
    /\ installed_flatpaks = << >>
    /\ terminal_width = 80
    /\ headers = << >>
    /\ table_rows = << >>
    /\ col_widths = << >>
    /\ header_line = << >>
    /\ pending = << >>
    /\ printed = << >>
    /\ pc = "format"
    /\ host = {apt}
    /\ sudo = [ SUDO_USER |-> FALSE, euid |-> 1000 ]
    /\ entry = "api"
    /\ action = "search"
    /\ packages = << vim >>
    /\ source = None
    /\ available_managers = << apt >>
    /\ src = None
    /\ use_flatpak = FALSE
    /\ use_yay = FALSE
    /\ plan = << >>
    /\ log = << >>
    /\ exit_code = NoExit

\* format_search_results: lines = output.strip().split('\n')
AptSplitLines ==
    /\ pc = "format"
    /\ lines' = Split(Strip(output), "\n")
    /\ pc' = "format_line"
    /\ UNCHANGED << request, dispatcher, table, flatpaks, listing, output, rows >>

\* format_search_results: one turn of its loop
AptReadLine ==
    /\ pc = "format_line" /\ lines # << >>
    /\ rows' = rows \o AptFormatLine(Head(lines))
    /\ lines' = Tail(lines)
    /\ pc' = IF Tail(lines) = << >> THEN "formatted" ELSE pc
    /\ UNCHANGED << request, dispatcher, table, flatpaks, listing, output >>

AptNext ==
    \/ AptSplitLines
    \/ AptReadLine

AptSpec == AptInit /\ [][AptNext]_vars

\* ------------------------------------ flatpak's format_search_results

\* a line printed as it is
RawLine(text) == [ raw |-> text ]

\* a listing of the installed applications read by their names
GetInstalledFlatpaks_Names(stdout) ==
    IF stdout = << >> THEN << >>
    ELSE LET ls == Split(Strip(stdout), "\n")
             ok == SelectSeq(ls, LAMBDA l : Len(Split(l, "\t")) >= 3)
         IN [ i \in DOMAIN ok |-> Split(ok[i], "\t")[1] ]

\* FlatpakManager.get_installed_flatpaks, `flatpak list` having exited 0
\* with this stdout: the application ids, in order
GetInstalledFlatpaks(stdout) ==
    IF stdout = << >> THEN << >>
    ELSE LET ls == Split(Strip(stdout), "\n")
             ok == SelectSeq(ls, LAMBDA l : Len(Split(l, "\t")) >= 3)
         IN [ i \in DOMAIN ok |-> Split(ok[i], "\t")[2] ]

\* FlatpakManager.format_search_results, the body of its loop: what is
\* printed for one line (nothing, a row, or the line itself)
FlatpakFormatLine(line, ids) ==
    IF Strip(line) = << >> THEN << >>
    ELSE LET parts == Split(line, "\t") IN
         IF Len(parts) >= 5
         THEN LET name == parts[1]
                  app_id == parts[3]
                  version == parts[4]
                  branch == parts[5]
                  remote == IF Len(parts) > 5 THEN parts[6] ELSE << >>
              IN << Row(name, version, remote \o << "/" >> \o branch,
                        InSeq(ids, app_id)) >>
         ELSE IF Len(parts) = 1 /\ Strip(parts[1]) # << >>
              THEN << RawLine(parts[1]) >>
              ELSE << >>

\* ---- what flatpak reports: tab-delimited lines

MaxInstalled == 2

GIMP == << "G", "I", "M", "P" >>
GimpId == << "o", "r", "g", ".", "g", "i", "m", "p", ".", "G", "I", "M", "P" >>
Vim == << "V", "i", "m" >>
VimId == << "o", "r", "g", ".", "v", "i", "m", ".", "V", "i", "m" >>
flathub == << "f", "l", "a", "t", "h", "u", "b" >>

\* lines of `flatpak search`: name, description, application id, version,
\* branch, remote; one without a version, one without a remote, and the
\* line of a search that found nothing
FlatpakEntries ==
    { << GIMP, << "I", "m", "a", "g", "e", " ", "e", "d", "i", "t", "o", "r" >>, GimpId, << "2", ".", "1", "0" >>, stable, flathub >>,
      << Vim, << "E", "d", "i", "t", "o", "r" >>, VimId, << >>, stable, flathub >>,
      << Vim, << "E", "d", "i", "t", "o", "r" >>, VimId, << "9" >>, stable >>,
      << << "N", "o", " ", "m", "a", "t", "c", "h", "e", "s", " ", "f", "o", "u", "n", "d" >> >> }

FlatpakListings == UNION { [1..n -> FlatpakEntries] : n \in 1..MaxLines }

\* lines of `flatpak list`: name, application id, version, branch,
\* installation; one without a version, one of two fields only
InstalledEntries ==
    { << GIMP, GimpId, << "2", ".", "1", "0" >>, stable, << "s", "y", "s", "t", "e", "m" >> >>,
      << Vim, VimId, << >>, stable, << "s", "y", "s", "t", "e", "m" >> >>,
      << Vim, VimId >> }

Installations == UNION { [1..n -> InstalledEntries] : n \in 0..MaxInstalled }

\* the fields of an entry, tab-delimited
FlatpakLine(e) ==
    IF e = << >> THEN << >>
    ELSE Head(e) \o JoinBefore(Tail(e), << "\t" >>)

\* the stdout of a flatpak command: its lines, each ended by a newline
RECURSIVE FlatpakOutput(_)
FlatpakOutput(l) ==
    IF l = << >> THEN << >>
    ELSE FlatpakLine(Head(l)) \o << "\n" >> \o FlatpakOutput(Tail(l))

\* ---- the run of the parser

FlatpakInit ==
    /\ listing \in FlatpakListings
    /\ output = FlatpakOutput(listing)
    /\ installation \in Installations
    /\ flatpak_list = FlatpakOutput(installation)
    /\ installed_flatpaks = << >>
    /\ terminal_width = 80
    /\ headers = << >>
    /\ table_rows = << >>
    /\ col_widths = << >>
    /\ header_line = << >>
    /\ pending = << >>
    /\ printed = << >>
    /\ lines = << >>
    /\ rows = << >>
    /\ pc = "list"
    /\ host = {flatpak}
    /\ sudo = [ SUDO_USER |-> FALSE, euid |-> 1000 ]
    /\ entry = "api"
    /\ action = "search"
    /\ packages = << vim >>
    /\ source = None
    /\ available_managers = << flatpak >>
    /\ src = None
    /\ use_flatpak = TRUE
    /\ use_yay = FALSE
    /\ plan = << >>
    /\ log = << >>
    /\ exit_code = NoExit

\* search: installed_flatpaks = get_installed_flatpaks()
FlatpakGetInstalled ==
    /\ pc = "list"
    /\ installed_flatpaks' = GetInstalledFlatpaks(flatpak_list)
    /\ pc' = "format"
    /\ UNCHANGED << request, dispatcher, table, listing, output, lines, rows,
                    installation, flatpak_list >>

\* format_search_results: lines = output.strip().split('\n')
FlatpakSplitLines ==
    /\ pc = "format"
    /\ lines' = Split(Strip(output), "\n")
    /\ pc' = "format_line"
    /\ UNCHANGED << request, dispatcher, table, flatpaks, listing, output, rows >>

\* format_search_results: one turn of its loop
FlatpakReadLine ==
    /\ pc = "format_line" /\ lines # << >>
    /\ rows' = rows \o FlatpakFormatLine(Head(lines), installed_flatpaks)
    /\ lines' = Tail(lines)
    /\ pc' = IF Tail(lines) = << >> THEN "formatted" ELSE pc
    /\ UNCHANGED << request, dispatcher, table, flatpaks, listing, output >>

FlatpakNext ==
    \/ FlatpakGetInstalled
    \/ FlatpakSplitLines
    \/ FlatpakReadLine

FlatpakSpec == FlatpakInit /\ [][FlatpakNext]_vars

\* ============================================================ print_table

\* Python's max and min of two integers
Max(a, b) == IF a >= b THEN a ELSE b

Min(a, b) == IF a <= b THEN a ELSE b

\* s[:k]: a negative k counts from the end, and no k reaches outside s
Slice(s, k) ==
    SubSeq(s, 1, IF k < 0 THEN Max(Len(s) + k, 0) ELSE Min(k, Len(s)))

\* s.ljust(w): pads with spaces up to w characters, and never cuts
LJust(s, w) ==
    IF Len(s) >= w THEN s ELSE s \o [ i \in 1..(w - Len(s)) |-> " " ]

Ellipsis == << ".", ".", "." >>

\* the column widths: the longest of the header and the cells of the column,
\* then capped
ColWidths(hs, rs, tw) ==
    LET max_width == (tw \div Len(hs)) - 3
        Longest(i, n) ==
            LET Fold[k \in 0..Len(rs)] ==
                    IF k = 0 THEN n
                    ELSE IF i <= Len(rs[k])
                         THEN Max(Fold[k - 1], Len(rs[k][i]))
                         ELSE Fold[k - 1]
            IN  Fold[Len(rs)]
    IN  [ i \in DOMAIN hs |-> Min(Longest(i, Len(hs[i])), max_width) ]

\* the header line, cell by cell: padded, never cut
HeaderLine(hs, ws) ==
    [ i \in DOMAIN hs |-> IF i <= Len(ws) THEN LJust(hs[i], ws[i]) ELSE hs[i] ]

\* one row, cell by cell: a cell longer than its column is cut and marked
FormatRow(row, ws) ==
    [ i \in DOMAIN row |->
        IF i <= Len(ws)
        THEN LJust(IF Len(row[i]) > ws[i]
                     THEN Slice(row[i], ws[i] - 3) \o Ellipsis
                     ELSE row[i],
                   ws[i])
        ELSE row[i] ]

\* ---- the run of print_table alone, on every table within the bounds

MaxWidth == 24

MaxRows == 2

TerminalWidths == 1..MaxWidth

HeaderLists ==
    { << << "N", "a", "m", "e" >> >>,
      << << "N", "a", "m", "e" >>, << "V", "e", "r", "s", "i", "o", "n" >> >> }

libreoffice == << "l", "i", "b", "r", "e", "o", "f", "f", "i", "c", "e" >>

CellTexts == { vim, firefox, libreoffice }

Tables(n) ==
    UNION { [ 1..k -> [ 1..n -> CellTexts ] ] : k \in 0..MaxRows }

TableInit ==
    /\ terminal_width \in TerminalWidths
    /\ headers \in HeaderLists
    /\ table_rows \in Tables(Len(headers))
    /\ col_widths = << >>
    /\ header_line = << >>
    /\ pending = << >>
    /\ printed = << >>
    /\ listing = << >>
    /\ output = << >>
    /\ installation = << >>
    /\ flatpak_list = << >>
    /\ installed_flatpaks = << >>
    /\ lines = << >>
    /\ rows = << >>
    /\ pc = "table"
    /\ host = {}
    /\ sudo = [ SUDO_USER |-> FALSE, euid |-> 1000 ]
    /\ entry = "api"
    /\ action = "search"
    /\ packages = << vim >>
    /\ source = None
    /\ available_managers = << >>
    /\ src = None
    /\ use_flatpak = FALSE
    /\ use_yay = FALSE
    /\ plan = << >>
    /\ log = << >>
    /\ exit_code = NoExit

\* if not rows: return
TableEmpty ==
    /\ pc = "table"
    /\ table_rows = << >>
    /\ pc' = "printed"
    /\ UNCHANGED << request, dispatcher, parser, table >>

\* the column widths, capped by the terminal's width
TableWidths ==
    /\ pc = "table"
    /\ table_rows # << >>
    /\ col_widths' = ColWidths(headers, table_rows, terminal_width)
    /\ pc' = "header"
    /\ UNCHANGED << request, dispatcher, parser, terminal_width, headers,
                    table_rows, header_line, pending, printed >>

\* print(header_line) and the rule under it
TablePrintHeader ==
    /\ pc = "header"
    /\ header_line' = HeaderLine(headers, col_widths)
    /\ pending' = table_rows
    /\ pc' = "row"
    /\ UNCHANGED << request, dispatcher, parser, terminal_width, headers,
                    table_rows, col_widths, printed >>

\* for row in rows: one turn of the loop
TablePrintRow ==
    /\ pc = "row"
    /\ pending # << >>
    /\ printed' = Append(printed, FormatRow(Head(pending), col_widths))
    /\ pending' = Tail(pending)
    /\ pc' = IF Tail(pending) = << >> THEN "printed" ELSE pc
    /\ UNCHANGED << request, dispatcher, parser, terminal_width, headers,
                    table_rows, col_widths, header_line >>

TableNext ==
    \/ TableEmpty
    \/ TableWidths
    \/ TablePrintHeader
    \/ TablePrintRow

TableSpec == TableInit /\ [][TableNext]_vars

\* ============================================================ properties

\* ---- vocabulary of the properties (read off the log and the request)

Done == pc \in {"exited", "returned", "raised"}

\* the requested method ran to its end: it returned to its caller, or main
\* returned 0 after it
RanToEnd == pc = "returned" \/ (pc = "exited" /\ exit_code = << 0 >>)

Spawns == SelectSeq(log, LAMBDA e : e.kind = "spawn")

Prompts == SelectSeq(log, LAMBDA e : e.kind = "prompt")

\* the package commands: the subprocesses that carry out the requested action
CommandSpawns == SelectSeq(log, LAMBDA e : e.kind = "spawn" /\ e.op = action)

Backends(events) == [ i \in DOMAIN events |-> events[i].mgr ]

ErrorReported == \E i \in DOMAIN log : log[i].kind = "error"

\* the answers y / yes, trimmed and case-insensitive, among Responses
YesAnswers == { << "y" >>, << " ", "Y", "E", "S", " " >> }

PromptAsked(m) ==
    \E i \in DOMAIN log : log[i].kind = "prompt" /\ log[i].mgr = m

PromptAccepted(m) ==
    \E i \in DOMAIN log :
        log[i].kind = "prompt" /\ log[i].mgr = m /\ log[i].resp \in YesAnswers

\* the system backends of the host, in registry order
HostSystem == SelectSeq(<< pacman, apt, zypper >>, LAMBDA m : m \in host)

BlankEntry(p) == \A j \in DOMAIN p : p[j] \in {" ", "\t", "\n"}

\* the package list is empty or has an empty or all-whitespace entry
InvalidList(pkgs) == pkgs = <<>> \/ \E i \in DOMAIN pkgs : BlankEntry(pkgs[i])

\* a source is given and names, in any letter case, the backend m
Names(s, m) == ~Falsy(s) /\ Len(s) = Len(m) /\ Lower(s) = m

\* a source is given and names no backend of the host
NamesNoAvailable(s) == ~Falsy(s) /\ \A m \in host : ~Names(s, m)

\* a request with packages: search, install or remove
PackageAction == action \in {"search", "install", "remove"}

\* the process has elevated privileges: SUDO_USER is set or the effective
\* user id is 0
Elevated == sudo.SUDO_USER \/ sudo.euid = 0

\* the method of the request was called (detection is over)
Called == pc # "start" /\ ~(entry = "main" /\ Elevated)

\* ---- C1
\* C1 (as claimed): search, install and remove called with a source that
\* names no available backend spawn no subprocess at all.  (The claim also
\* asks for an error message; search prints none either.)
C1_UnavailableSourceSpawnsNothing ==
    (Called /\ PackageAction /\ NamesNoAvailable(source)) => Spawns = <<>>

\* ---- C2
\* C2: search, install and remove with an empty package list, or with an
\* empty or all-whitespace entry, report a validation failure, ask no prompt
\* and spawn no subprocess, whatever the source and the host.
C2_InvalidPackagesSpawnNothing ==
    (PackageAction /\ InvalidList(packages))
        => /\ Prompts = <<>>
           /\ Spawns = <<>>
           /\ Done => ErrorReported

C2_Witness ==
    /\ pc = "returned" /\ action = "search"
    /\ packages = << vim, << " " >> >>
    /\ host = BackendNames
    /\ ErrorReported

\* ---- C3
\* C3: every subprocess targets a backend whose availability probe held
\* and that is a key of available_managers.
C3_OnlyAvailableBackendsInvoked ==
    \A i \in DOMAIN log :
        log[i].kind = "spawn"
            => log[i].mgr \in host /\ InSeq(available_managers, log[i].mgr)

C3_Witness ==
    /\ Len(Spawns) >= 2
    /\ host # BackendNames
    /\ action = "update"

\* ---- C4
\* C4: with a source naming an available backend, search, install and remove
\* ask no prompt and send every package command to that backend; the only
\* other subprocesses are flatpak list before a flatpak search and the
\* cleanup after a successful flatpak removal.
C4_ExplicitSourceOnly ==
    \A m \in host :
        (PackageAction /\ Names(source, m))
            => /\ Prompts = <<>>
               /\ \A i \in DOMAIN log :
                    log[i].kind = "spawn"
                        => /\ log[i].mgr = m
                           /\ \/ log[i].op = action
                              \/ /\ log[i].op = "list"
                                 /\ action = "search" /\ m = flatpak
                                 /\ \A j \in 1..(i - 1) : log[j].kind # "spawn"
                              \/ /\ log[i].op = "cleanup"
                                 /\ action = "remove" /\ m = flatpak
                                 /\ \E j \in 1..(i - 1) :
                                        /\ log[j].kind = "exit"
                                        /\ log[j].op = "remove"
                                        /\ log[j].rc = 0

C4_Witness ==
    /\ Done /\ entry = "api" /\ action = "remove"
    /\ source = << "F", "l", "a", "t", "p", "a", "k" >>
    /\ Cardinality(host) > 2
    /\ \E i \in DOMAIN log : log[i].kind = "spawn" /\ log[i].op = "cleanup"

\* ---- C5
\* the backend C5 expects: flatpak if its prompt was accepted, otherwise yay
\* if its prompt was accepted, otherwise the first system backend
C5_Expected ==
    IF PromptAccepted(flatpak) THEN flatpak
    ELSE IF PromptAccepted(yay) THEN yay
    ELSE Head(HostSystem)

\* C5: install and remove without a source, a system backend being
\* available, send the package command to exactly one backend: flatpak if
\* the flatpak prompt was accepted, otherwise yay if the yay prompt was
\* accepted, otherwise the first available system backend in registry order.
\* (The package list is valid: C2 covers the others.)
C5_OneBackendByPreference ==
    (/\ Called /\ action \in {"install", "remove"}
     /\ Falsy(source) /\ ~InvalidList(packages)
     /\ HostSystem # <<>>)
        => /\ Len(CommandSpawns) <= 1
           /\ \A i \in DOMAIN CommandSpawns :
                CommandSpawns[i].mgr = C5_Expected
           /\ Done => Len(CommandSpawns) = 1

C5_Witness ==
    /\ Done /\ action = "install" /\ Falsy(source)
    /\ host = {apt, zypper, flatpak, yay}
    /\ PromptAsked(flatpak) /\ ~PromptAccepted(flatpak)
    /\ PromptAsked(yay) /\ ~PromptAccepted(yay)
    /\ Backends(CommandSpawns) = << apt >>

\* ---- C6
\* C6 (as claimed): install and remove without a source, with flatpak, yay
\* and a system backend available: the yay prompt is asked only after the
\* flatpak prompt was asked and declined.
C6_YayPromptOnlyAfterFlatpakDeclined ==
    (/\ action \in {"install", "remove"} /\ Falsy(source)
     /\ {flatpak, yay} \subseteq host /\ HostSystem # <<>>)
        => \A i \in DOMAIN log :
             (log[i].kind = "prompt" /\ log[i].mgr = yay)
                => \E j \in 1..(i - 1) :
                     /\ log[j].kind = "prompt" /\ log[j].mgr = flatpak
                     /\ log[j].resp \notin YesAnswers

\* ---- C7
\* C7: install and remove without a source when no system backend is
\* available: no prompt is asked; the command goes to flatpak if it is
\* available, otherwise to yay if it is available; with no backend at all no
\* subprocess is spawned.
C7_AlternativeWithoutPrompt ==
    (/\ Called /\ action \in {"install", "remove"}
     /\ Falsy(source) /\ ~InvalidList(packages)
     /\ HostSystem = <<>>)
        => /\ Prompts = <<>>
           /\ host = {} => Spawns = <<>>
           /\ \A i \in DOMAIN CommandSpawns :
                CommandSpawns[i].mgr = (IF flatpak \in host THEN flatpak
                                        ELSE yay)
           /\ (Done /\ host # {}) => Len(CommandSpawns) = 1

C7_Witness ==
    /\ Done /\ action = "remove" /\ Falsy(source)
    /\ host = {flatpak, yay}
    /\ Backends(CommandSpawns) = << flatpak >>
    /\ Prompts = <<>>

\* ---- C8
\* how often the backend m was searched
TimesQueried(m) ==
    Cardinality({ i \in DOMAIN log :
                    /\ log[i].kind = "spawn"
                    /\ log[i].op = "search"
                    /\ log[i].mgr = m })

\* a search without a source, with a valid package list, that ran to its end
C8_SearchEnded ==
    /\ action = "search" /\ Falsy(source) /\ ~InvalidList(packages)
    /\ RanToEnd

\* C8 (as claimed): such a search queries every available system backend
\* exactly once, and flatpak (resp. yay) iff it is available and its prompt
\* was accepted or it is the only backend of any kind that is available.
C8_AlternativeOnlyIfSoleBackend ==
    C8_SearchEnded
        => /\ \A m \in {pacman, apt, zypper} :
                TimesQueried(m) = (IF m \in host THEN 1 ELSE 0)
           /\ \A m \in {flatpak, yay} :
                /\ TimesQueried(m) <= 1
                /\ TimesQueried(m) = 1
                     <=> (m \in host /\ (PromptAccepted(m) \/ host = {m}))

\* C8 (amended): such a search queries every available system backend
\* exactly once, and flatpak (resp. yay) iff it is available and its prompt
\* was accepted or no system backend is available.
C8_AlternativeIfNoSystemBackend ==
    C8_SearchEnded
        => /\ \A m \in {pacman, apt, zypper} :
                TimesQueried(m) = (IF m \in host THEN 1 ELSE 0)
           /\ \A m \in {flatpak, yay} :
                /\ TimesQueried(m) <= 1
                /\ TimesQueried(m) = 1
                     <=> (m \in host
                          /\ (PromptAccepted(m) \/ HostSystem = <<>>))

C8_Witness ==
    /\ C8_SearchEnded
    /\ host = {flatpak, yay}
    /\ TimesQueried(flatpak) = 1 /\ TimesQueried(yay) = 1
    /\ Prompts = <<>>

\* ---- C9
\* how often the backend m was updated
TimesUpdated(m) ==
    Cardinality({ i \in DOMAIN log :
                    /\ log[i].kind = "spawn"
                    /\ log[i].op = "update"
                    /\ log[i].mgr = m })

\* C9 (as claimed): an update that ran to its end gave every available
\* system backend exactly one update subprocess, and updated yay (resp.
\* flatpak) iff it is available and its prompt was asked and accepted.
C9_AlternativeOnlyIfPromptAccepted ==
    (action = "update" /\ RanToEnd)
        => /\ \A m \in {pacman, apt, zypper} :
                TimesUpdated(m) = (IF m \in host THEN 1 ELSE 0)
           /\ \A m \in {flatpak, yay} :
                /\ TimesUpdated(m) <= 1
                /\ TimesUpdated(m) = 1 <=> (m \in host /\ PromptAccepted(m))

\* C9 (amended): ... and updated yay (resp. flatpak) iff it is available
\* and either its prompt was asked and accepted or no system backend is
\* available (no prompt is asked then).
C9_AlternativeIfAcceptedOrNoSystem ==
    (action = "update" /\ RanToEnd)
        => /\ \A m \in {pacman, apt, zypper} :
                TimesUpdated(m) = (IF m \in host THEN 1 ELSE 0)
           /\ \A m \in {flatpak, yay} :
                /\ TimesUpdated(m) <= 1
                /\ TimesUpdated(m) = 1
                     <=> (m \in host
                          /\ \/ PromptAccepted(m)
                             \/ (HostSystem = <<>> /\ ~PromptAsked(m)))

C9_Witness ==
    /\ action = "update" /\ RanToEnd
    /\ host = {flatpak}
    /\ TimesUpdated(flatpak) = 1
    /\ Prompts = <<>>

\* ---- C10
\* the backends a multi-backend operation selected, in the order it runs them
C10_Selected ==
    HostSystem
    \o (IF use_yay /\ yay \in host THEN << yay >> ELSE <<>>)
    \o (IF use_flatpak /\ flatpak \in host THEN << flatpak >> ELSE <<>>)

\* C10: in an update, and in a search without a source, a non-zero exit code
\* of one backend is reported and the backends after it are still invoked:
\* when the operation ends, the selected backends were each invoked once, in
\* order, whatever the exit codes; no backend is invoked twice.
C10_FailureDoesNotStopIteration ==
    (\/ action = "update"
     \/ action = "search" /\ Falsy(source) /\ ~InvalidList(packages))
        => /\ \A i \in DOMAIN log :
                (log[i].kind = "exit" /\ log[i].op = action /\ log[i].rc # 0)
                    => /\ i < Len(log)
                       /\ log[i + 1].kind = "error"
                       /\ log[i + 1].mgr = log[i].mgr
                       /\ log[i + 1].rc = log[i].rc
           /\ \A i, j \in DOMAIN CommandSpawns :
                CommandSpawns[i].mgr = CommandSpawns[j].mgr => i = j
           /\ RanToEnd => Backends(CommandSpawns) = C10_Selected

C10_Witness ==
    /\ action = "update" /\ RanToEnd
    /\ Len(C10_Selected) = 5
    /\ \E i \in DOMAIN log :
         /\ log[i].kind = "exit" /\ log[i].mgr = pacman /\ log[i].rc # 0
    /\ \E i \in DOMAIN log :
         /\ log[i].kind = "exit" /\ log[i].mgr = flatpak /\ log[i].rc = 0

\* ---- C11
\* the positions of the log where flatpak's cleanup was spawned
C11_Cleanups ==
    { i \in DOMAIN log : log[i].kind = "spawn" /\ log[i].op = "cleanup" }

\* the exit code of the flatpak uninstall, << >> while it has not exited
C11_UninstallCode ==
    IF \E i \in DOMAIN log :
           log[i].kind = "exit" /\ log[i].op = "remove" /\ log[i].mgr = flatpak
    THEN << log[CHOOSE i \in DOMAIN log :
                  /\ log[i].kind = "exit" /\ log[i].op = "remove"
                  /\ log[i].mgr = flatpak].rc >>
    ELSE << >>

\* C11: in a remove, the cleanup `flatpak uninstall --unused` is spawned at
\* most once, only after a flatpak uninstall that exited 0, and without
\* elevation or package names; once the remove has ended, an uninstall that
\* exited 0 was followed by exactly one cleanup and an uninstall that
\* exited non-zero by none; a cleanup that exits non-zero is reported as an
\* error and the run still ends normally.
C11_CleanupIffUninstallSucceeded ==
    action = "remove"
        => /\ Cardinality(C11_Cleanups) <= 1
           /\ \A i \in C11_Cleanups :
                /\ log[i].cmd = << "flatpak", "uninstall", "--unused" >>
                /\ log[i].pkgs = << >>
                /\ \E j \in 1 .. (i - 1) :
                     /\ log[j].kind = "exit" /\ log[j].op = "remove"
                     /\ log[j].mgr = flatpak /\ log[j].rc = 0
           /\ (Done /\ C11_UninstallCode = << 0 >>)
                => Cardinality(C11_Cleanups) = 1
           /\ (C11_UninstallCode # << >> /\ C11_UninstallCode # << 0 >>)
                => C11_Cleanups = {}
           /\ \A i \in DOMAIN log :
                (log[i].kind = "exit" /\ log[i].op = "cleanup"
                 /\ log[i].rc # 0)
                    => /\ RanToEnd
                       /\ i + 1 = Len(log)
                       /\ log[i + 1].kind = "error"
                       /\ log[i + 1].rc = log[i].rc

\* an accepted flatpak prompt, an uninstall that exited 0, a failed cleanup
C11_Witness ==
    /\ action = "remove" /\ RanToEnd /\ Falsy(source)
    /\ PromptAccepted(flatpak)
    /\ C11_UninstallCode = << 0 >>
    /\ Cardinality(C11_Cleanups) = 1
    /\ \E i \in DOMAIN log :
         log[i].kind = "exit" /\ log[i].op = "cleanup" /\ log[i].rc # 0

\* ---- C12
\* C12: whatever the operation and the way the backend was selected, every
\* subprocess spawned for pacman, apt or zypper is one of search, install,
\* update, remove and has `sudo` as the first element of its argv, and every
\* subprocess spawned for flatpak or yay (`flatpak list` and the flatpak
\* cleanup included) has an argv that does not start with `sudo`.
C12_SudoIffSystemBackend ==
    \A i \in DOMAIN log :
        log[i].kind = "spawn"
            => /\ log[i].cmd # << >>
               /\ log[i].mgr \in {pacman, apt, zypper}
                    => /\ log[i].cmd[1] = "sudo"
                       /\ log[i].op \in {"search", "install", "update",
                                         "remove"}
               /\ log[i].mgr \in {flatpak, yay}
                    => log[i].cmd[1] \in {"flatpak", "yay"}

\* a search that listed the installed flatpaks and queried pacman, yay and
\* flatpak
C12_Witness ==
    /\ action = "search" /\ RanToEnd
    /\ \E i, j, k, l \in DOMAIN log :
         /\ log[i].kind = "spawn" /\ log[i].op = "list"
         /\ log[i].cmd = << "flatpak", "list" >>
         /\ log[j].kind = "spawn" /\ log[j].mgr = pacman
         /\ log[j].cmd = << "sudo", "pacman", "-Ss" >>
         /\ log[k].kind = "spawn" /\ log[k].mgr = yay
         /\ log[k].cmd = << "yay", "-Ss" >>
         /\ log[l].kind = "spawn" /\ log[l].mgr = flatpak
         /\ log[l].cmd = << "flatpak", "search" >>

\* ---- C13
\* the prompts of the log that were not answered y / yes: answered otherwise,
\* or cut short by an end of input or an interrupt
C13_NotAccepted ==
    { i \in DOMAIN log :
        log[i].kind = "prompt" /\ log[i].resp \notin YesAnswers }

\* the backends a run uses when each alternative whose prompt was not
\* accepted counts as declined (a system backend is available)
C13_Selection ==
    IF action \in {"install", "remove"} THEN << C5_Expected >>
    ELSE HostSystem
         \o (IF PromptAccepted(yay) THEN << yay >> ELSE << >>)
         \o (IF PromptAccepted(flatpak) THEN << flatpak >> ELSE << >>)

\* C13: a preference prompt that ends with an end of input, an interrupt or
\* any answer other than y / yes only declines its alternative: no
\* subprocess is spawned for that backend, the run is not aborted by it (a
\* run is aborted only by an interrupt of a subprocess), the yay prompt is
\* still asked after a flatpak prompt that was not accepted, and a run that
\* reaches its end has used exactly the backends that declining selects.
C13_CutShortPromptIsNo ==
    /\ (exit_code = << 130 >> \/ pc = "raised")
          => \E j \in DOMAIN log : log[j].kind = "interrupt"
    /\ \A i \in C13_NotAccepted :
          /\ \A j \in DOMAIN log :
               log[j].kind = "spawn" => log[j].mgr # log[i].mgr
          /\ (log[i].mgr = flatpak /\ yay \in host
               /\ (Done \/ Spawns # << >>))
                => PromptAsked(yay)
          /\ RanToEnd => Backends(CommandSpawns) = C13_Selection

\* an update under main: end of input at the flatpak prompt, an interrupt at
\* the yay prompt, the system backend updated, exit code 0
C13_Witness ==
    /\ action = "update" /\ entry = "main" /\ exit_code = << 0 >>
    /\ host = {pacman, flatpak, yay}
    /\ \E i, j \in DOMAIN log :
         /\ i < j
         /\ log[i].kind = "prompt" /\ log[i].mgr = flatpak
         /\ log[i].resp = EOFError
         /\ log[j].kind = "prompt" /\ log[j].mgr = yay
         /\ log[j].resp = KeyboardInterrupt
    /\ Backends(CommandSpawns) = << pacman >>

\* ---- C14
\* the prompts of the log at which the user pressed Ctrl-C
C14_InterruptedPrompts ==
    { i \in DOMAIN log :
        log[i].kind = "prompt" /\ log[i].resp = KeyboardInterrupt }

\* the cancellation notice is at position i of the log
C14_NoticeAt(i) ==
    /\ i \in DOMAIN log
    /\ log[i].kind = "warning"
    /\ log[i].msg = "Operation cancelled by user"

\* a subprocess of the run was interrupted
C14_SubprocessInterrupted == \E j \in DOMAIN log : log[j].kind = "interrupt"

\* C14 (as claimed): a run of the tool in which the user interrupted a
\* preference prompt printed the cancellation notice and ends with exit
\* status 130.
C14_PromptInterruptExits130 ==
    (entry = "main" /\ pc = "exited" /\ C14_InterruptedPrompts # {})
        => /\ \A i \in C14_InterruptedPrompts : C14_NoticeAt(i + 1)
           /\ exit_code = << 130 >>

\* C14 (amended): an interrupt at a preference prompt is followed at once
\* by the cancellation notice and the run goes on with that alternative
\* declined; such a run of the tool ends with exit status 130 if a
\* subprocess was interrupted later on, and with exit status 0 otherwise.
C14_PromptInterruptOnlyDeclines ==
    /\ \A i \in C14_InterruptedPrompts : C14_NoticeAt(i + 1)
    /\ (entry = "main" /\ pc = "exited" /\ C14_InterruptedPrompts # {})
          => exit_code = (IF C14_SubprocessInterrupted
                          THEN << 130 >> ELSE << 0 >>)

\* the tool updates after an interrupt at the flatpak prompt and exits 0
C14_Witness ==
    /\ entry = "main" /\ pc = "exited" /\ exit_code = << 0 >>
    /\ action = "update"
    /\ \E i \in C14_InterruptedPrompts :
         /\ log[i].mgr = flatpak
         /\ \E j \in DOMAIN log : j > i /\ log[j].kind = "exit"

\* ---- C15
\* C15: once a backend subprocess of a search, install, update or remove
\* (or the listing and cleanup subprocesses that go with them) is
\* interrupted, the run is over: nothing more is spawned, neither the
\* remaining backends nor the flatpak cleanup; and under the tool the
\* cancellation notice is printed right after it and the exit status is 130.
C15_SubprocessInterruptEndsRun ==
    \A i \in DOMAIN log :
        log[i].kind = "interrupt"
            => /\ Done
               /\ \A j \in DOMAIN log : j > i => log[j].kind # "spawn"
               /\ log[i - 1].kind = "spawn" /\ log[i - 1].mgr = log[i].mgr
               /\ entry = "main"
                    => /\ exit_code = << 130 >>
                       /\ Len(log) = i + 1
                       /\ log[i + 1].kind = "warning"
                       /\ log[i + 1].msg = "Operation cancelled by user"
               /\ entry = "api" => pc = "raised" /\ Len(log) = i

\* the tool updates a host with pacman, apt and an accepted flatpak; the
\* update of pacman is interrupted, apt and flatpak are never updated
C15_Witness ==
    /\ entry = "main" /\ action = "update" /\ exit_code = << 130 >>
    /\ {pacman, apt, flatpak} \subseteq host
    /\ PromptAccepted(flatpak)
    /\ Backends(Spawns) = << pacman >>
    /\ \E i \in DOMAIN log : log[i].kind = "interrupt" /\ log[i].mgr = pacman

\* ---- C16
\* the request carries a validation error: a package action with an empty
\* list or a blank entry, or a source that names no available backend
C16_ValidationError ==
    \/ PackageAction /\ InvalidList(packages)
    \/ NamesNoAvailable(source)

\* C16 (as claimed): a run of the tool whose request carries a validation
\* error ends with exit code 1, never 0.
C16_ValidationErrorExits1 ==
    (entry = "main" /\ pc = "exited" /\ C16_ValidationError)
        => exit_code = << 1 >>

\* ---- C17
\* C17: when the tool is started with SUDO_USER set or with effective user
\* id 0, then whatever the action, the packages, the source and the host,
\* it detects no backend, asks nothing and spawns nothing; it prints only
\* its two refusal messages and ends with exit code 1.
C17_ElevatedRunRefused ==
    (entry = "main" /\ Elevated)
        => /\ pc \in {"start", "exited"}
           /\ available_managers = << >>
           /\ Prompts = << >> /\ Spawns = << >>
           /\ pc = "exited"
                => /\ exit_code = << 1 >>
                   /\ Len(log) = 2
                   /\ \A i \in DOMAIN log : log[i].kind = "error"

\* root without SUDO_USER asks for an install from an available backend and
\* is refused
C17_Witness ==
    /\ entry = "main" /\ ~sudo.SUDO_USER /\ sudo.euid = 0
    /\ action = "install" /\ packages = << vim >> /\ source = apt
    /\ apt \in host
    /\ pc = "exited" /\ exit_code = << 1 >>

\* ---- C18
\* a method called on the dispatcher has normalized its source: `source` is
\* the input of _normalize_source and `src` its result
C18_Normalized ==
    /\ entry = "api" /\ PackageAction /\ ~InvalidList(packages)
    /\ pc # "start" /\ pc # action

\* the inputs that differ from s in letter case only
C18_SameButCase(s) ==
    { t \in RawSources : ~Falsy(s) /\ ~Falsy(t)
                           /\ Len(t) = Len(s) /\ Lower(t) = Lower(s) }

\* normalizing once more changes nothing, and inputs that differ only in
\* case and name an available backend have the same result
C18_IdempotentAndCaseInsensitive ==
    /\ NormalizeSource(available_managers, src) = src
    /\ (\E m \in host : Names(source, m))
          => \A t \in C18_SameButCase(source) :
               NormalizeSource(available_managers, t) = src

\* C18 (as claimed): _normalize_source is idempotent and case-insensitive,
\* and its result is the available backend the input names in any letter
\* case, or the input itself when it names no available backend.
C18_UnmatchedReturnedUnchanged ==
    C18_Normalized
        => /\ C18_IdempotentAndCaseInsensitive
           /\ src = (IF \E m \in host : Names(source, m)
                     THEN CHOOSE m \in host : Names(source, m)
                     ELSE source)

\* C18 (amended): _normalize_source is idempotent and case-insensitive; its
\* result is None for an absent or empty input, the available backend the
\* input names in any letter case, and otherwise the input itself.
C18_UnmatchedUnchangedUnlessEmpty ==
    C18_Normalized
        => /\ C18_IdempotentAndCaseInsensitive
           /\ src = (IF source = None \/ source = << >> THEN None
                     ELSE IF \E m \in host : Names(source, m)
                     THEN CHOOSE m \in host : Names(source, m)
                     ELSE source)

\* an install called with the source PACMAN where pacman is available
C18_Witness ==
    /\ C18_Normalized /\ action = "install"
    /\ source = << "P", "A", "C", "M", "A", "N" >>
    /\ pacman \in host
    /\ src = pacman
    /\ Backends(Spawns) = << pacman >>

\* ---- C19
\* C19 (as claimed): an update run by the tool with a source that names an
\* available backend spawns subprocesses for that backend only, and once it
\* has run to its end it has spawned exactly that backend's update.
C19_UpdateRestrictedToSource ==
    (entry = "main" /\ action = "update")
        => \A m \in host :
             Names(source, m)
                => /\ \A i \in DOMAIN Spawns : Spawns[i].mgr = m
                   /\ RanToEnd => Backends(CommandSpawns) = << m >>

\* ---- C20
\* the rows the claim expects of a listing: one per package line, in order,
\* with origin and name the texts around the first `/`, the version the
\* second token, installed iff `[installed]` is among the flags; none for a
\* description line
RECURSIVE C20_ExpectedRows(_)
C20_ExpectedRows(l) ==
    IF l = << >> THEN << >>
    ELSE (IF Head(l).kind = "package"
          THEN << [ name |-> Head(l).name, version |-> Head(l).version,
                    origin |-> Head(l).repo,
                    installed |-> \E i \in DOMAIN Head(l).flags :
                                     Head(l).flags[i] = InstalledMarker ] >>
          ELSE << >>)
         \o C20_ExpectedRows(Tail(l))

RECURSIVE C21_ExpectedRows(_)
C21_ExpectedRows(l) ==
    IF l = << >> THEN << >>
    ELSE << [ name |-> Head(l).name, version |-> Head(l).version,
              origin |-> Head(l).repo,
              installed |-> \E i \in DOMAIN Head(l).flags :
                               StartsWith(Head(l).flags[i],
                                          AptInstalledMarker) ] >>
         \o C21_ExpectedRows(Tail(l))

\* C21 (as claimed): whatever lines `pkg/repo version arch [flags]` apt
\* printed, whatever the lengths of the names and with or without an epoch
\* in the version, once the parser has read them it has printed exactly one
\* row per line, with the fields of that line.
C21_AptRowsAsListed ==
    pc = "formatted" => rows = C21_ExpectedRows(listing)

\* ---- C22
\* the application ids the claim expects: the second field of every line of
\* `flatpak list` with at least three fields
C22_InstalledIds ==
    { installation[i][2] :
        i \in { j \in DOMAIN installation : Len(installation[j]) >= 3 } }

\* the field n of a line, empty when the line has fewer fields
C22_Field(e, n) == IF n <= Len(e) THEN e[n] ELSE << >>

\* the rows the claim expects: one per line with at least five fields
RECURSIVE C22_ExpectedRows(_)
C22_ExpectedRows(l) ==
    IF l = << >> THEN << >>
    ELSE (IF Len(Head(l)) >= 5
          THEN << [ name |-> Head(l)[1], version |-> Head(l)[4],
                    origin |-> C22_Field(Head(l), 6) \o << "/" >>
                               \o Head(l)[5],
                    installed |-> Head(l)[3] \in C22_InstalledIds ] >>
          ELSE << >>)
         \o C22_ExpectedRows(Tail(l))

\* the rows among what the parser printed
C22_Rows == SelectSeq(rows, LAMBDA r : "name" \in DOMAIN r)

\* C22: the installed set handed to the flatpak parser is made of the second
\* fields of the lines of `flatpak list` that have at least three fields;
\* and once the parser has read the search output it has printed exactly one
\* row per line of at least five fields, with name = field 1, version =
\* field 4, origin = field 6 `/` field 5 and installed iff field 3 is in
\* the installed set.
C22_FlatpakRowsAsListed ==
    /\ pc # "list"
         => { installed_flatpaks[i] : i \in DOMAIN installed_flatpaks }
                = C22_InstalledIds
    /\ pc = "formatted" => C22_Rows = C22_ExpectedRows(listing)

\* GIMP is found and installed, Vim is found and only named by a short line
\* of `flatpak list`
C22_Witness ==
    /\ pc = "formatted"
    /\ Len(listing) = 2 /\ Len(installation) = 2
    /\ C22_InstalledIds = { GimpId }
    /\ rows = << Row(GIMP, << "2", ".", "1", "0" >>,
                     flathub \o << "/" >> \o stable, TRUE),
                 Row(Vim, << >>, flathub \o << "/" >> \o stable, FALSE) >>

\* ---- C23
\* C23 (as claimed): when a backend's parser raises on the output of a
\* search subprocess that exited 0, the raw output of that backend is
\* printed next, the run does not end there with a failure, and a search
\* that runs to its end has still queried every selected backend.
C23_ParseFailurePrintsRawOutput ==
    action = "search"
        => /\ \A i \in DOMAIN log :
                log[i].kind = "raise"
                    => /\ log[i - 1].kind = "exit" /\ log[i - 1].rc = 0
                       /\ i < Len(log)
                       /\ log[i + 1].kind = "raw"
                       /\ log[i + 1].mgr = log[i].mgr
           /\ (RanToEnd /\ Falsy(source) /\ ~InvalidList(packages))
                => Backends(CommandSpawns) = C10_Selected

\* ---- C24
\* the cap of a column: the terminal's width shared out, less the separator
C24_Cap == (terminal_width \div Len(headers)) - 3

\* the longest text of column i, its header included
C24_Longest(i) ==
    LET lens == { Len(headers[i]) }
                    \cup { Len(table_rows[k][i]) : k \in DOMAIN table_rows }
    IN  CHOOSE n \in lens : \A m \in lens : m <= n

C24_Width(i) == IF C24_Longest(i) <= C24_Cap THEN C24_Longest(i) ELSE C24_Cap

C25_Order ==
    SelectSeq(<< pacman, apt, zypper >>, LAMBDA m : m \in host)
    \o (IF use_yay THEN << yay >> ELSE << >>)
    \o (IF use_flatpak THEN << flatpak >> ELSE << >>)

\* the positions in the log of the prompts and of the subprocess starts
C25_PromptAt == { i \in DOMAIN log : log[i].kind = "prompt" }

C25_SpawnAt == { i \in DOMAIN log : log[i].kind = "spawn" }

\* C25: in an update, at every moment: only available alternatives are
\* prompted for, flatpak before yay and each at most once; every prompt was
\* answered before the first subprocess started; the subprocesses started so
\* far are the first of the system backends in registry order, then yay if
\* included, then flatpak if included; and between two subprocess starts
\* the earlier subprocess has exited.
C25_UpdateOrder ==
    action = "update"
        => /\ Backends(Prompts)
                \in { << >>, << flatpak >>, << yay >>, << flatpak, yay >> }
           /\ \A i \in C25_PromptAt : log[i].mgr \in host
           /\ \A i \in C25_PromptAt : \A j \in C25_SpawnAt : i < j
           /\ Len(Spawns) <= Len(C25_Order)
           /\ Backends(Spawns) = SubSeq(C25_Order, 1, Len(Spawns))
           /\ \A i, j \in C25_SpawnAt :
                i < j => \E k \in (i + 1)..(j - 1) :
                            /\ log[k].kind = "exit"
                            /\ log[k].mgr = log[i].mgr
           /\ RanToEnd => Len(Spawns) = Len(C25_Order)

\* all five backends are available, both prompts are accepted, pacman's
\* update fails and the four after it are still run in order
C25_Witness ==
    /\ action = "update" /\ RanToEnd
    /\ Backends(Prompts) = << flatpak, yay >>
    /\ Backends(Spawns) = << pacman, apt, zypper, yay, flatpak >>
    /\ \E i \in DOMAIN log :
         log[i].kind = "exit" /\ log[i].mgr = pacman /\ log[i].rc # 0
    /\ \E i \in DOMAIN log :
         log[i].kind = "exit" /\ log[i].mgr = apt /\ log[i].rc = 0

\* ---- C26
\* main was run unprivileged, with no or an available -so source, with
\* packages where the action needs them, and no subprocess was interrupted
C26_RegularRun ==
    /\ entry = "main"
    /\ ~Elevated
    /\ source = None \/ \E m \in host : Names(source, m)
    /\ action \in {"install", "remove", "search"} => packages # << >>
    /\ \A i \in DOMAIN log : log[i].kind # "interrupt"

\* C26: a regular run of main that has ended returned 0, whatever the exit
\* codes of its subprocesses were, and whether or not any backend is
\* available.
C26_RegularRunReturns0 ==
    (C26_RegularRun /\ pc = "exited") => exit_code = << 0 >>

\* an update of two backends, both of whose subprocesses failed
C26_Witness ==
    /\ C26_RegularRun /\ pc = "exited"
    /\ action = "update"
    /\ Len(Spawns) >= 2
    /\ \A i \in DOMAIN log : log[i].kind = "exit" => log[i].rc # 0
    /\ exit_code = << 0 >>

====
